---- MODULE Spec2Model ----
(***************************************************************************)
(* The three generator scripts of Way-of-SunVox as one interpreter:        *)
(*   8--Techniques/Sidechain-Compression/generate_examples.py  (sidechain) *)
(*   basic_house_track.py                                      (house)     *)
(*   create_modular_construction.py                            (modular)   *)
(* Each script is a straight line of statements.  A statement is a record  *)
(* (its op and operands), a script is the sequence of its statements, and  *)
(* there is one action per kind of statement.  The objects the statements  *)
(* build (projects, modules, patterns, file handles) live in heaps indexed *)
(* by object identity; Python variables are bindings in env.               *)
(***************************************************************************)
EXTENDS Integers, Sequences, FiniteSets, TLC

VARIABLES
  script,       \* which script this process runs
  cwd,          \* working directory of the process (a path)
  file_abs,     \* whether __file__ is handed to the script as an absolute path
  dirs,         \* directories that exist on disk
  disk,         \* files on disk: path -> content
  run,          \* how many times the script has been started
  prev,         \* what the previous completed run produced
  status,       \* "running", "done" (fell off the end) or "failed" (uncaught raise)
  pc,           \* index of the next statement
  env,          \* variable name -> object identity
  projs,        \* heap of Project objects
  mods,         \* heap of Module objects
  pats,         \* heap of Pattern objects
  files,        \* heap of file objects returned by open()
  script_dir,   \* generate_examples.py: script_dir
  output_dir,   \* create_modular_construction.py: output_dir
  output_path,  \* output_path
  f,            \* the file object bound by "with open(...) as f" (0: unbound)
  stdout        \* what has been printed

vars == <<script, cwd, file_abs, dirs, disk, run, prev, status, pc, env, projs,
          mods, pats, files, script_dir, output_dir, output_path, f, stdout>>

\* How often the script is started over the same disk.
MaxRuns == 2

-----------------------------------------------------------------------------
(* Sequences of statements *)

RECURSIVE Flat(_)
Flat(ss) == IF ss = <<>> THEN <<>> ELSE Head(ss) \o Flat(Tail(ss))

\* for x in xs: Body(x)
ForEach(xs, Body(_)) == Flat([i \in 1..Len(xs) |-> Body(xs[i])])

\* range(a, b, step) as a list
RECURSIVE range(_, _, _)
range(a, b, step) == IF a >= b THEN <<>> ELSE <<a>> \o range(a + step, b, step)

-----------------------------------------------------------------------------
(* Statements *)

\* v = Project()
NewProject(v) == <<[op |-> "Project", var |-> v]>>

\* v.attr = val
SetAttr(v, attr, val) == <<[op |-> "setattr", var |-> v, attr |-> attr, val |-> val]>>

\* v = p.new_module(m.<type>, name=..., **kw); kw carries type and name too
new_module(p, v, kw) == <<[op |-> "new_module", proj |-> p, var |-> v, kw |-> kw]>>

\* Operands of >>: a module variable, or p.output
Var(v) == [out |-> FALSE, var |-> v]
output(p) == [out |-> TRUE, var |-> p]

\* a >> b
Connect(a, b) == <<[op |-> "connect", src |-> a, dst |-> b]>>

\* a >> b >> c: (a >> b) evaluates to b, then b >> c
Chain3(a, b, c) == Connect(a, b) \o Connect(b, c)

\* a >> b >> c >> d
Chain4(a, b, c, d) == Connect(a, b) \o Connect(b, c) \o Connect(c, d)

\* v = Pattern(name=..., tracks=..., lines=...)
NewPattern(v, name, tracks, lines) ==
  <<[op |-> "Pattern", var |-> v, name |-> name, tracks |-> tracks, lines |-> lines]>>

\* p.attach_pattern(v)
attach_pattern(p, v) == <<[op |-> "attach_pattern", proj |-> p, var |-> v]>>

\* v.data[line][track].note = note
SetNote(v, line, track, note) ==
  <<[op |-> "note", var |-> v, line |-> line, track |-> track, val |-> note]>>

\* v.data[line][track].vel = vel
SetVel(v, line, track, vel) ==
  <<[op |-> "vel", var |-> v, line |-> line, track |-> track, val |-> vel]>>

\* v.data[line][track].module = mod.index + 1
SetModule(v, line, track, mod) ==
  <<[op |-> "module", var |-> v, line |-> line, track |-> track, mod |-> mod]>>

\* The three assignments of a note-on cell, in the order the scripts write them
NoteOn(v, line, track, note, vel, mod) ==
  SetNote(v, line, track, note) \o SetVel(v, line, track, vel) \o SetModule(v, line, track, mod)

\* The two assignments of a note-off cell
NoteOff(v, line, track, mod) ==
  SetNote(v, line, track, "NOTE_OFF") \o SetModule(v, line, track, mod)

\* script_dir = os.path.dirname(os.path.abspath(__file__))
SetScriptDir == <<[op |-> "script_dir"]>>

\* output_dir = "<literal>"
SetOutputDir(path) == <<[op |-> "output_dir", path |-> path]>>

\* os.makedirs(output_dir, exist_ok=True)
makedirs == <<[op |-> "makedirs"]>>

\* output_path = os.path.join(script_dir, name)   (base "script_dir")
\* output_path = "<literal>/name"                 (base a literal path)
SetOutputPath(base, name) == <<[op |-> "output_path", base |-> base, name |-> name]>>

\* f = open(<path>, 'wb'); p.write_to(f) with nothing that closes f
WithOpenWrite_unclosed(where, name, p) ==
  << [op |-> "open", where |-> where, name |-> name],
     [op |-> "write_to", proj |-> p] >>

\* with open(<path>, 'wb') as f: p.write_to(f)
\* where: "output_path" (the variable) or "output_dir" (the f-string f"{output_dir}/name")
WithOpenWrite(where, name, p) ==
  << [op |-> "open", where |-> where, name |-> name],
     [op |-> "write_to", proj |-> p],
     [op |-> "close"] >>

\* print(...): text is the fixed part, val what is interpolated
\* ("" nothing, "output_path", "bpm", "modules", "patterns", "output_dir")
Say(text, val, p) == <<[op |-> "print", text |-> text, val |-> val, proj |-> p]>>

say(text) == Say(text, "", "")

-----------------------------------------------------------------------------
(* generate_examples.py *)

sc_header ==
  SetScriptDir \o say("Generating SunVox sidechain compression examples...")

\* Example 1: Basic EDM Kick-to-Bass Sidechain
p1_project ==
  say("1. Creating sidechain_basic_edm.sunvox...")
  \o NewProject("p1")
  \o SetAttr("p1", "sunvox_version", <<1, 9, 3, 1>>)
  \o SetAttr("p1", "based_on_version", <<1, 9, 3, 1>>)
  \o SetAttr("p1", "name", "Sidechain - Basic EDM")
  \o SetAttr("p1", "initial_bpm", 128)
  \o SetAttr("p1", "initial_tpl", 6)

p1_modules ==
  new_module("p1", "kick", [type |-> "Kicker", name |-> "Kick", vol |-> 256,
      boost |-> 256, x |-> 256, y |-> 256, color |-> <<255, 80, 80>>])
  \o new_module("p1", "bass", [type |-> "AnalogGenerator", name |-> "Bass",
      waveform |-> "saw", volume |-> 192, attack |-> 0, release |-> 200,
      sustain |-> TRUE, x |-> 512, y |-> 128, color |-> <<80, 180, 255>>])
  \o new_module("p1", "comp", [type |-> "Compressor", name |-> "Sidechain Comp",
      volume |-> 256, threshold |-> 154, slope |-> 0, attack |-> 1,
      release |-> 100, mode |-> "peak", x |-> 640, y |-> 128,
      color |-> <<80, 255, 180>>])
  \o new_module("p1", "s2c", [type |-> "Sound2Ctl", name |-> "SC Trigger",
      absolute |-> TRUE, gain |-> 200, smooth |-> 10, sample_rate_hz |-> 100,
      channels |-> "stereo", x |-> 384, y |-> 256, color |-> <<255, 200, 80>>])

\* kick >> p1.output forgotten: the kick feeds the trigger only
p1_connections_silent_kick ==
  Chain3(Var("bass"), Var("comp"), output("p1"))
  \o Connect(Var("kick"), Var("s2c"))

p1_connections ==
  Chain3(Var("bass"), Var("comp"), output("p1"))
  \o Connect(Var("kick"), output("p1"))
  \o Connect(Var("kick"), Var("s2c"))

\* The fourth kick a beat early
p1_kick_pattern_early ==
  NewPattern("kick_pattern", "Kick", 1, 32)
  \o attach_pattern("p1", "kick_pattern")
  \o ForEach(<<0, 8, 16, 20>>,
       LAMBDA line : NoteOn("kick_pattern", line, 0, "C5", 128, "kick"))

\* The pattern attached once its cells are written
p1_kick_pattern_attach_last ==
  NewPattern("kick_pattern", "Kick", 1, 32)
  \o ForEach(<<0, 8, 16, 24>>,
       LAMBDA line : NoteOn("kick_pattern", line, 0, "C5", 128, "kick"))
  \o attach_pattern("p1", "kick_pattern")

p1_kick_pattern ==
  NewPattern("kick_pattern", "Kick", 1, 32)
  \o attach_pattern("p1", "kick_pattern")
  \o ForEach(<<0, 8, 16, 24>>,
       LAMBDA line : NoteOn("kick_pattern", line, 0, "C5", 128, "kick"))

\* The note-off on the last line instead of line 30
p1_bass_pattern_late_off ==
  NewPattern("bass_pattern", "Bass", 1, 32)
  \o attach_pattern("p1", "bass_pattern")
  \o NoteOn("bass_pattern", 0, 0, "C3", 100, "bass")
  \o NoteOff("bass_pattern", 31, 0, "bass")

\* The note-off of the bass addressed to the kick
p1_bass_pattern_off_to_kick ==
  NewPattern("bass_pattern", "Bass", 1, 32)
  \o attach_pattern("p1", "bass_pattern")
  \o NoteOn("bass_pattern", 0, 0, "C3", 100, "bass")
  \o NoteOff("bass_pattern", 30, 0, "kick")

p1_bass_pattern ==
  NewPattern("bass_pattern", "Bass", 1, 32)
  \o attach_pattern("p1", "bass_pattern")
  \o NoteOn("bass_pattern", 0, 0, "C3", 100, "bass")
  \o NoteOff("bass_pattern", 30, 0, "bass")

p1_save ==
  SetOutputPath("script_dir", "sidechain_basic_edm.sunvox")
  \o WithOpenWrite("output_path", "", "p1")
  \o Say("   OK Created: ", "output_path", "")

\* Example 2: Vocal Clarity (Subtle Sidechain)
p2_project ==
  say("2. Creating sidechain_vocal_clarity.sunvox...")
  \o NewProject("p2")
  \o SetAttr("p2", "sunvox_version", <<1, 9, 3, 1>>)
  \o SetAttr("p2", "based_on_version", <<1, 9, 3, 1>>)
  \o SetAttr("p2", "name", "Sidechain - Vocal Clarity")
  \o SetAttr("p2", "initial_bpm", 90)
  \o SetAttr("p2", "initial_tpl", 6)

p2_modules ==
  new_module("p2", "vocal_trigger", [type |-> "Kicker", name |-> "Vocal Trigger",
      vol |-> 0, x |-> 256, y |-> 256, color |-> <<255, 180, 255>>])
  \o new_module("p2", "pad", [type |-> "AnalogGenerator", name |-> "Music Pad",
      waveform |-> "saw", volume |-> 180, attack |-> 200, release |-> 256,
      sustain |-> TRUE, filter |-> "lp_12db", filter_cutoff |-> 180,
      x |-> 512, y |-> 128, color |-> <<150, 120, 255>>])
  \o new_module("p2", "subtle_comp", [type |-> "Compressor", name |-> "Gentle Duck",
      volume |-> 256, threshold |-> 180, slope |-> 0, attack |-> 8,
      release |-> 200, mode |-> "peak", x |-> 640, y |-> 128,
      color |-> <<80, 255, 180>>])
  \o new_module("p2", "s2c_vocal", [type |-> "Sound2Ctl", name |-> "Vocal SC",
      absolute |-> TRUE, gain |-> 120, smooth |-> 30, x |-> 384, y |-> 256,
      color |-> <<255, 200, 80>>])

p2_connections ==
  Chain3(Var("pad"), Var("subtle_comp"), output("p2"))
  \o Connect(Var("vocal_trigger"), Var("s2c_vocal"))

p2_patterns ==
  NewPattern("trigger_pattern", "Vocal Timing", 1, 64)
  \o attach_pattern("p2", "trigger_pattern")
  \o ForEach(<<0, 16, 32, 48>>,
       LAMBDA line : NoteOn("trigger_pattern", line, 0, "C5", 80, "vocal_trigger"))
  \o NewPattern("pad_pattern", "Pad", 1, 64)
  \o attach_pattern("p2", "pad_pattern")
  \o NoteOn("pad_pattern", 0, 0, "C4", 80, "pad")

\* Example 2 saved under the file name of example 1
p2_save_same_name ==
  SetOutputPath("script_dir", "sidechain_basic_edm.sunvox")
  \o WithOpenWrite("output_path", "", "p2")
  \o Say("   OK Created: ", "output_path", "")

p2_save ==
  SetOutputPath("script_dir", "sidechain_vocal_clarity.sunvox")
  \o WithOpenWrite("output_path", "", "p2")
  \o Say("   OK Created: ", "output_path", "")

\* Example 3: Rhythmic Gating (Extreme Sidechain)
p3_project ==
  say("3. Creating sidechain_rhythmic_gate.sunvox...")
  \o NewProject("p3")
  \o SetAttr("p3", "name", "Sidechain - Rhythmic Gate")
  \o SetAttr("p3", "initial_bpm", 140)
  \o SetAttr("p3", "initial_tpl", 6)

p3_modules ==
  new_module("p3", "hihat", [type |-> "DrumSynth", name |-> "HiHat Trigger",
      vol |-> 128, bass_panning |-> -128, hihat_volume |-> 256,
      x |-> 256, y |-> 256, color |-> <<255, 255, 80>>])
  \o new_module("p3", "gate_pad", [type |-> "AnalogGenerator", name |-> "Gated Pad",
      waveform |-> "triangle", volume |-> 200, attack |-> 0, release |-> 256,
      sustain |-> TRUE, x |-> 512, y |-> 128, color |-> <<255, 120, 200>>])
  \o new_module("p3", "gate_comp", [type |-> "Compressor", name |-> "Gate Comp",
      volume |-> 256, threshold |-> 100, slope |-> 0, attack |-> 0,
      release |-> 20, mode |-> "peak", x |-> 640, y |-> 128,
      color |-> <<255, 80, 80>>])
  \o new_module("p3", "s2c_gate", [type |-> "Sound2Ctl", name |-> "Gate Trigger",
      absolute |-> TRUE, gain |-> 255, smooth |-> 0, x |-> 384, y |-> 256,
      color |-> <<255, 200, 80>>])

\* The Sound2Ctl of example 3 wired into the compressor it controls
p3_connections_s2c_into_comp ==
  Chain3(Var("gate_pad"), Var("gate_comp"), output("p3"))
  \o Connect(Var("hihat"), output("p3"))
  \o Chain3(Var("hihat"), Var("s2c_gate"), Var("gate_comp"))

p3_connections ==
  Chain3(Var("gate_pad"), Var("gate_comp"), output("p3"))
  \o Connect(Var("hihat"), output("p3"))
  \o Connect(Var("hihat"), Var("s2c_gate"))

p3_patterns ==
  NewPattern("hihat_pattern", "HiHat", 1, 16)
  \o attach_pattern("p3", "hihat_pattern")
  \o ForEach(range(0, 16, 2),
       LAMBDA line : NoteOn("hihat_pattern", line, 0, "C5", 100, "hihat"))
  \o NewPattern("gatepad_pattern", "Pad", 1, 16)
  \o attach_pattern("p3", "gatepad_pattern")
  \o NoteOn("gatepad_pattern", 0, 0, "E3", 100, "gate_pad")

p3_save ==
  SetOutputPath("script_dir", "sidechain_rhythmic_gate.sunvox")
  \o WithOpenWrite("output_path", "", "p3")
  \o Say("   OK Created: ", "output_path", "")

\* Example 4: Multi-Band Sidechain
p4_project ==
  say("4. Creating sidechain_multiband.sunvox...")
  \o NewProject("p4")
  \o SetAttr("p4", "name", "Sidechain - Multi-Band")
  \o SetAttr("p4", "initial_bpm", 120)
  \o SetAttr("p4", "initial_tpl", 6)

p4_modules ==
  new_module("p4", "mb_kick", [type |-> "Kicker", name |-> "Kick", vol |-> 256,
      x |-> 256, y |-> 384, color |-> <<255, 80, 80>>])
  \o new_module("p4", "rich_pad", [type |-> "AnalogGenerator", name |-> "Rich Pad",
      waveform |-> "saw", volume |-> 180, attack |-> 150, release |-> 250,
      sustain |-> TRUE, x |-> 256, y |-> 128, color |-> <<180, 140, 255>>])
  \o new_module("p4", "lowband_filter", [type |-> "Filter", name |-> "Low Band",
      type_ |-> "lp", freq |-> 300, resonance |-> 0, x |-> 384, y |-> 64,
      color |-> <<255, 100, 100>>])
  \o new_module("p4", "highband_filter", [type |-> "Filter", name |-> "High Band",
      type_ |-> "hp", freq |-> 300, resonance |-> 0, x |-> 384, y |-> 192,
      color |-> <<100, 200, 255>>])
  \o new_module("p4", "lowband_comp", [type |-> "Compressor", name |-> "Low Band Comp",
      volume |-> 256, threshold |-> 160, slope |-> 0, attack |-> 1,
      release |-> 120, x |-> 512, y |-> 64, color |-> <<80, 255, 180>>])
  \o new_module("p4", "s2c_mb", [type |-> "Sound2Ctl", name |-> "SC Trigger",
      absolute |-> TRUE, gain |-> 180, x |-> 384, y |-> 384,
      color |-> <<255, 200, 80>>])

p4_connections ==
  Chain4(Var("rich_pad"), Var("lowband_filter"), Var("lowband_comp"), output("p4"))
  \o Chain3(Var("rich_pad"), Var("highband_filter"), output("p4"))
  \o Connect(Var("mb_kick"), output("p4"))
  \o Connect(Var("mb_kick"), Var("s2c_mb"))

p4_patterns ==
  NewPattern("mb_kick_pattern", "Kick", 1, 32)
  \o attach_pattern("p4", "mb_kick_pattern")
  \o ForEach(<<0, 8, 16, 24>>,
       LAMBDA line : NoteOn("mb_kick_pattern", line, 0, "C5", 120, "mb_kick"))
  \o NewPattern("mb_pad_pattern", "Pad", 1, 32)
  \o attach_pattern("p4", "mb_pad_pattern")
  \o NoteOn("mb_pad_pattern", 0, 0, "A3", 90, "rich_pad")

p4_save ==
  SetOutputPath("script_dir", "sidechain_multiband.sunvox")
  \o WithOpenWrite("output_path", "", "p4")
  \o Say("   OK Created: ", "output_path", "")

\* Example 5: Inverse Sidechain (Swelling)
p5_project ==
  say("5. Creating sidechain_inverse.sunvox...")
  \o NewProject("p5")
  \o SetAttr("p5", "name", "Sidechain - Inverse Swell")
  \o SetAttr("p5", "initial_bpm", 128)
  \o SetAttr("p5", "initial_tpl", 6)

p5_modules ==
  new_module("p5", "inv_kick", [type |-> "Kicker", name |-> "Kick", vol |-> 256,
      x |-> 256, y |-> 256, color |-> <<255, 80, 80>>])
  \o new_module("p5", "noise", [type |-> "Generator", name |-> "Noise",
      volume |-> 160, waveform |-> "noise", x |-> 512, y |-> 128,
      color |-> <<200, 200, 200>>])
  \o new_module("p5", "amp", [type |-> "Amplifier", name |-> "Swell Amp",
      volume |-> 80, inverse |-> FALSE, x |-> 640, y |-> 128,
      color |-> <<255, 180, 80>>])
  \o new_module("p5", "s2c_inv", [type |-> "Sound2Ctl", name |-> "Swell Trigger",
      absolute |-> TRUE, gain |-> 200, smooth |-> 50, x |-> 384, y |-> 256,
      color |-> <<255, 200, 80>>])

p5_connections ==
  Chain3(Var("noise"), Var("amp"), output("p5"))
  \o Connect(Var("inv_kick"), output("p5"))
  \o Connect(Var("inv_kick"), Var("s2c_inv"))

p5_patterns ==
  NewPattern("inv_kick_pattern", "Kick", 1, 32)
  \o attach_pattern("p5", "inv_kick_pattern")
  \o ForEach(<<0, 8, 16, 24>>,
       LAMBDA line : NoteOn("inv_kick_pattern", line, 0, "C5", 128, "inv_kick"))

p5_save ==
  SetOutputPath("script_dir", "sidechain_inverse.sunvox")
  \o WithOpenWrite("output_path", "", "p5")
  \o Say("   OK Created: ", "output_path", "")

\* Example 6: LFO Fake Sidechain
p6_project ==
  say("6. Creating sidechain_lfo_fake.sunvox...")
  \o NewProject("p6")
  \o SetAttr("p6", "name", "Sidechain - LFO Fake")
  \o SetAttr("p6", "initial_bpm", 128)
  \o SetAttr("p6", "initial_tpl", 6)

p6_modules ==
  new_module("p6", "lfo_bass", [type |-> "AnalogGenerator", name |-> "Bass",
      waveform |-> "saw", volume |-> 200, attack |-> 0, release |-> 256,
      sustain |-> TRUE, x |-> 384, y |-> 128, color |-> <<80, 180, 255>>])
  \o new_module("p6", "lfo", [type |-> "Lfo", name |-> "Pump LFO", volume |-> 256,
      waveform |-> "saw", freq |-> 128, duty_cycle |-> 64, generator |-> FALSE,
      x |-> 256, y |-> 128, color |-> <<255, 220, 80>>])
  \o new_module("p6", "lfo_amp", [type |-> "Amplifier", name |-> "LFO Pump",
      volume |-> 256, x |-> 512, y |-> 128, color |-> <<180, 255, 180>>])

\* The pumped signal fed back into the bass
p6_connections_feedback ==
  Connect(Var("lfo"), Var("lfo_bass"))
  \o Chain3(Var("lfo_bass"), Var("lfo_amp"), output("p6"))
  \o Connect(Var("lfo_amp"), Var("lfo_bass"))

p6_connections ==
  Connect(Var("lfo"), Var("lfo_bass"))
  \o Chain3(Var("lfo_bass"), Var("lfo_amp"), output("p6"))

p6_patterns ==
  NewPattern("lfo_bass_pattern", "Bass", 1, 32)
  \o attach_pattern("p6", "lfo_bass_pattern")
  \o NoteOn("lfo_bass_pattern", 0, 0, "C3", 100, "lfo_bass")

p6_save ==
  SetOutputPath("script_dir", "sidechain_lfo_fake.sunvox")
  \o WithOpenWrite("output_path", "", "p6")
  \o Say("   OK Created: ", "output_path", "")

sc_footer ==
  say("============================================================")
  \o say("OK All 6 sidechain example files generated successfully!")
  \o say("============================================================")

generate_examples ==
  sc_header
  \o p1_project \o p1_modules \o p1_connections \o p1_kick_pattern
  \o p1_bass_pattern \o p1_save
  \o p2_project \o p2_modules \o p2_connections \o p2_patterns \o p2_save
  \o p3_project \o p3_modules \o p3_connections \o p3_patterns \o p3_save
  \o p4_project \o p4_modules \o p4_connections \o p4_patterns \o p4_save
  \o p5_project \o p5_modules \o p5_connections \o p5_patterns \o p5_save
  \o p6_project \o p6_modules \o p6_connections \o p6_patterns \o p6_save
  \o sc_footer

-----------------------------------------------------------------------------
(* basic_house_track.py *)

house_project ==
  say("Creating basic house track...")
  \o NewProject("p")
  \o SetAttr("p", "name", "Basic House Track")
  \o SetAttr("p", "initial_bpm", 125)
  \o SetAttr("p", "initial_tpl", 6)

house_drums ==
  new_module("p", "kick", [type |-> "Kicker", name |-> "Kick", vol |-> 256,
      boost |-> 200, release |-> 100, x |-> 256, y |-> 128,
      color |-> <<255, 80, 80>>])
  \o new_module("p", "drums", [type |-> "DrumSynth", name |-> "Drums",
      bass_volume |-> 0, hihat_volume |-> 220, snare_volume |-> 180,
      x |-> 384, y |-> 128, color |-> <<255, 200, 80>>])
  \o new_module("p", "clap", [type |-> "DrumSynth", name |-> "Clap",
      bass_volume |-> 0, hihat_volume |-> 0, snare_volume |-> 200,
      snare_panning |-> 0, x |-> 512, y |-> 128, color |-> <<200, 255, 80>>])

house_bass ==
  new_module("p", "bass", [type |-> "AnalogGenerator", name |-> "Sub Bass",
      waveform |-> "sin", volume |-> 220, attack |-> 5, release |-> 150,
      sustain |-> TRUE, filter |-> "lp_12db", filter_cutoff |-> 100,
      x |-> 256, y |-> 256, color |-> <<80, 120, 255>>])
  \o new_module("p", "bass_comp", [type |-> "Compressor", name |-> "Bass Comp",
      volume |-> 256, threshold |-> 180, slope |-> 0, attack |-> 5,
      release |-> 100, x |-> 384, y |-> 256, color |-> <<100, 150, 255>>])

house_chords ==
  new_module("p", "chords", [type |-> "Fm", name |-> "Chords", c_volume |-> 180,
      m_volume |-> 120, c_freq_ratio |-> 1, m_freq_ratio |-> 2, attack |-> 150,
      release |-> 200, sustain |-> TRUE, x |-> 256, y |-> 384,
      color |-> <<180, 120, 255>>])
  \o new_module("p", "chord_filter", [type |-> "Filter", name |-> "Chord Filter",
      type_ |-> "lp", freq |-> 180, resonance |-> 100, x |-> 384, y |-> 384,
      color |-> <<200, 140, 255>>])
  \o new_module("p", "chord_reverb", [type |-> "Reverb", name |-> "Chord Reverb",
      volume |-> 256, dryout |-> 180, wetout |-> 100, x |-> 512, y |-> 384,
      color |-> <<220, 160, 255>>])

house_lead ==
  new_module("p", "lead", [type |-> "AnalogGenerator", name |-> "Lead",
      waveform |-> "saw", volume |-> 160, attack |-> 50, release |-> 180,
      sustain |-> TRUE, filter |-> "lp_12db", filter_cutoff |-> 200,
      x |-> 256, y |-> 512, color |-> <<255, 180, 100>>])
  \o new_module("p", "lead_delay", [type |-> "Delay", name |-> "Lead Delay",
      volume |-> 256, delay_l |-> 6, delay_r |-> 6, channels |-> "stereo",
      x |-> 384, y |-> 512, color |-> <<255, 200, 120>>])

house_master ==
  new_module("p", "master_comp", [type |-> "Compressor", name |-> "Master Comp",
      volume |-> 256, threshold |-> 190, slope |-> 0, attack |-> 10,
      release |-> 150, x |-> 640, y |-> 300, color |-> <<255, 255, 100>>])

\* The kick wired straight into Output, past the master compressor
house_connections_kick_direct ==
  Connect(Var("kick"), output("p"))
  \o Connect(Var("drums"), Var("master_comp"))
  \o Connect(Var("clap"), Var("master_comp"))
  \o Chain3(Var("bass"), Var("bass_comp"), Var("master_comp"))
  \o Chain4(Var("chords"), Var("chord_filter"), Var("chord_reverb"), Var("master_comp"))
  \o Chain3(Var("lead"), Var("lead_delay"), Var("master_comp"))
  \o Connect(Var("master_comp"), output("p"))

house_connections ==
  Connect(Var("kick"), Var("master_comp"))
  \o Connect(Var("drums"), Var("master_comp"))
  \o Connect(Var("clap"), Var("master_comp"))
  \o Chain3(Var("bass"), Var("bass_comp"), Var("master_comp"))
  \o Chain4(Var("chords"), Var("chord_filter"), Var("chord_reverb"), Var("master_comp"))
  \o Chain3(Var("lead"), Var("lead_delay"), Var("master_comp"))
  \o Connect(Var("master_comp"), output("p"))

house_kick_pattern ==
  say("Creating patterns...")
  \o NewPattern("kick_pattern", "Kick", 1, 32)
  \o attach_pattern("p", "kick_pattern")
  \o ForEach(<<0, 8, 16, 24>>,
       LAMBDA line : NoteOn("kick_pattern", line, 0, "C5", 120, "kick"))

house_hihat_pattern ==
  NewPattern("hihat_pattern", "Hihats", 1, 32)
  \o attach_pattern("p", "hihat_pattern")
  \o ForEach(range(0, 32, 4),
       LAMBDA line : NoteOn("hihat_pattern", line, 0, "C5", 90, "drums"))
  \o ForEach(<<6, 14, 22, 30>>,
       LAMBDA line : NoteOn("hihat_pattern", line, 0, "C5", 110, "drums"))

house_clap_pattern ==
  NewPattern("clap_pattern", "Claps", 1, 32)
  \o attach_pattern("p", "clap_pattern")
  \o ForEach(<<8, 24>>,
       LAMBDA line : NoteOn("clap_pattern", line, 0, "C5", 100, "clap"))

house_bass_pattern ==
  NewPattern("bass_pattern", "Bassline", 1, 128)
  \o attach_pattern("p", "bass_pattern")
  \o NoteOn("bass_pattern", 0, 0, "A2", 100, "bass")
  \o NoteOff("bass_pattern", 14, 0, "bass")
  \o NoteOn("bass_pattern", 16, 0, "A2", 100, "bass")
  \o NoteOff("bass_pattern", 30, 0, "bass")
  \o NoteOn("bass_pattern", 32, 0, "F2", 100, "bass")
  \o NoteOff("bass_pattern", 46, 0, "bass")
  \o NoteOn("bass_pattern", 48, 0, "F2", 100, "bass")
  \o NoteOff("bass_pattern", 62, 0, "bass")
  \o NoteOn("bass_pattern", 64, 0, "C3", 100, "bass")
  \o NoteOff("bass_pattern", 78, 0, "bass")
  \o NoteOn("bass_pattern", 80, 0, "C3", 100, "bass")
  \o NoteOff("bass_pattern", 94, 0, "bass")
  \o NoteOn("bass_pattern", 96, 0, "G2", 100, "bass")
  \o NoteOff("bass_pattern", 110, 0, "bass")
  \o NoteOn("bass_pattern", 112, 0, "G2", 100, "bass")
  \o NoteOff("bass_pattern", 126, 0, "bass")

house_chord_pattern ==
  NewPattern("chord_pattern", "Chords", 3, 128)
  \o attach_pattern("p", "chord_pattern")
  \o NoteOn("chord_pattern", 0, 0, "A3", 80, "chords")
  \o NoteOn("chord_pattern", 0, 1, "C4", 75, "chords")
  \o NoteOn("chord_pattern", 0, 2, "E4", 75, "chords")
  \o NoteOn("chord_pattern", 32, 0, "F3", 80, "chords")
  \o NoteOn("chord_pattern", 32, 1, "A3", 75, "chords")
  \o NoteOn("chord_pattern", 32, 2, "C4", 75, "chords")
  \o NoteOn("chord_pattern", 64, 0, "C4", 80, "chords")
  \o NoteOn("chord_pattern", 64, 1, "E4", 75, "chords")
  \o NoteOn("chord_pattern", 64, 2, "G4", 75, "chords")
  \o NoteOn("chord_pattern", 96, 0, "G3", 80, "chords")
  \o NoteOn("chord_pattern", 96, 1, "B3", 75, "chords")
  \o NoteOn("chord_pattern", 96, 2, "D4", 75, "chords")

melody_notes ==
  << <<0, "E5", 90>>, <<8, "C5", 85>>, <<16, "A4", 90>>, <<24, "C5", 85>>,
     <<32, "F5", 90>>, <<40, "E5", 85>>, <<48, "C5", 90>>, <<56, "A4", 85>> >>

\* The note-off ten lines on: past the next note-on
lead_note_long(line, note, vel) ==
  NoteOn("lead_pattern", line, 0, note, vel, "lead")
  \o (IF line + 10 < 64 THEN NoteOff("lead_pattern", line + 10, 0, "lead") ELSE <<>>)

\* The note-off eight lines on: on the line of the next note-on
lead_note_off8(line, note, vel) ==
  NoteOn("lead_pattern", line, 0, note, vel, "lead")
  \o (IF line + 8 < 64 THEN NoteOff("lead_pattern", line + 8, 0, "lead") ELSE <<>>)

\* The body of "for line, note, vel in melody_notes"
lead_note(line, note, vel) ==
  NoteOn("lead_pattern", line, 0, note, vel, "lead")
  \o (IF line + 6 < 64 THEN NoteOff("lead_pattern", line + 6, 0, "lead") ELSE <<>>)

house_lead_pattern ==
  NewPattern("lead_pattern", "Lead Melody", 1, 64)
  \o attach_pattern("p", "lead_pattern")
  \o ForEach(melody_notes, LAMBDA e : lead_note(e[1], e[2], e[3]))

house_intro_kick ==
  NewPattern("intro_kick", "Intro Kick", 1, 32)
  \o attach_pattern("p", "intro_kick")
  \o ForEach(<<0, 8, 16, 24>>,
       LAMBDA line : NoteOn("intro_kick", line, 0, "C5", 100, "kick"))
  \o Say("OK Created patterns: ", "patterns", "p")

house_save ==
  SetOutputPath(<<"home", "user", "Way-of-SunVox">>, "basic_house_track.sunvox")
  \o WithOpenWrite("output_path", "", "p")

house_summary ==
  say("============================================================")
  \o say("OK Basic house track created successfully!")
  \o say("============================================================")
  \o Say("File: ", "output_path", "")
  \o Say("BPM: ", "bpm", "p")
  \o Say("Modules: ", "modules", "p")
  \o Say("Patterns: ", "patterns", "p")
  \o say("Arrangement Guide:")
  \o say("  Patterns 0-6 contain:")
  \o say("    0: Kick (four-on-the-floor)")
  \o say("    1: Hi-hats (8th notes)")
  \o say("    2: Claps (2 & 4)")
  \o say("    3: Bassline (Am-F-C-G)")
  \o say("    4: Chords (Am-F-C-G)")
  \o say("    5: Lead melody")
  \o say("    6: Intro kick (softer)")
  \o say("Suggested Arrangement:")
  \o say("  - Start with pattern 6 (intro kick) for 4 bars")
  \o say("  - Add patterns 0,1 for 4 bars")
  \o say("  - Add pattern 3 (bass) for build")
  \o say("  - Drop: All patterns 0-5 together")
  \o say("  - Breakdown: Just patterns 4,5 (chords + lead)")
  \o say("  - Final drop: All patterns again")
  \o say("============================================================")

\* The intro kick built after the project is saved
basic_house_track_save_early ==
  house_project \o house_drums \o house_bass \o house_chords \o house_lead
  \o house_master \o house_connections \o house_kick_pattern
  \o house_hihat_pattern \o house_clap_pattern \o house_bass_pattern
  \o house_chord_pattern \o house_lead_pattern \o house_save
  \o house_intro_kick \o house_summary

\* The intro kick created and attached before the other patterns
basic_house_track_intro_first ==
  house_project \o house_drums \o house_bass \o house_chords \o house_lead
  \o house_master \o house_connections \o house_intro_kick \o house_kick_pattern
  \o house_hihat_pattern \o house_clap_pattern \o house_bass_pattern
  \o house_chord_pattern \o house_lead_pattern
  \o house_save \o house_summary

basic_house_track ==
  house_project \o house_drums \o house_bass \o house_chords \o house_lead
  \o house_master \o house_connections \o house_kick_pattern
  \o house_hihat_pattern \o house_clap_pattern \o house_bass_pattern
  \o house_chord_pattern \o house_lead_pattern \o house_intro_kick
  \o house_save \o house_summary

-----------------------------------------------------------------------------
(* create_modular_construction.py *)

mc_header ==
  SetOutputDir(<<"home", "user", "Way-of-SunVox", "modular_construction">>)
  \o makedirs
  \o say("============================================================")
  \o say("MODULAR SUNVOX CONSTRUCTION")
  \o say("Building complexity layer by layer...")
  \o say("============================================================")
  \o say("[LAYER 1] Creating simple building blocks...")

\* Building Block 1: Kick Drum
layer1_kick ==
  say("  1a. Kick drum module...")
  \o NewProject("kick_module")
  \o SetAttr("kick_module", "name", "Kick Module")
  \o new_module("kick_module", "kick", [type |-> "Kicker", name |-> "Kick",
       vol |-> 256, boost |-> 220, release |-> 100, x |-> 256, y |-> 256,
       color |-> <<255, 80, 80>>])
  \o new_module("kick_module", "kick_comp", [type |-> "Compressor",
       name |-> "Kick Comp", volume |-> 256, threshold |-> 170, slope |-> 0,
       attack |-> 1, release |-> 80, x |-> 384, y |-> 256,
       color |-> <<255, 120, 120>>])
  \o Chain3(Var("kick"), Var("kick_comp"), output("kick_module"))

layer1_kick_pattern ==
  NewPattern("kick_pattern", "Four on Floor", 1, 32)
  \o attach_pattern("kick_module", "kick_pattern")
  \o ForEach(<<0, 8, 16, 24>>,
       LAMBDA line : NoteOn("kick_pattern", line, 0, "C5", 120, "kick"))

\* The kick block announced before it is written
layer1_kick_save_say_first ==
  say("    OK layer1_kick.sunvox")
  \o WithOpenWrite("output_dir", "layer1_kick.sunvox", "kick_module")

layer1_kick_save ==
  WithOpenWrite("output_dir", "layer1_kick.sunvox", "kick_module")
  \o say("    OK layer1_kick.sunvox")

\* Building Block 2: Bass Synth
layer1_bass ==
  say("  1b. Bass synth module...")
  \o NewProject("bass_module")
  \o SetAttr("bass_module", "name", "Bass Module")
  \o new_module("bass_module", "bass", [type |-> "AnalogGenerator",
       name |-> "Sub Bass", waveform |-> "sin", volume |-> 220, attack |-> 5,
       release |-> 150, sustain |-> TRUE, filter |-> "lp_12db",
       filter_cutoff |-> 100, x |-> 256, y |-> 256, color |-> <<80, 120, 255>>])
  \o new_module("bass_module", "bass_filter", [type |-> "Filter",
       name |-> "Bass Filter", type_ |-> "lp", freq |-> 120, resonance |-> 80,
       x |-> 384, y |-> 256, color |-> <<120, 160, 255>>])
  \o Chain3(Var("bass"), Var("bass_filter"), output("bass_module"))

layer1_bass_pattern ==
  NewPattern("bass_pattern", "Bass A", 1, 32)
  \o attach_pattern("bass_module", "bass_pattern")
  \o NoteOn("bass_pattern", 0, 0, "A2", 100, "bass")
  \o NoteOff("bass_pattern", 30, 0, "bass")

layer1_bass_save ==
  WithOpenWrite("output_dir", "layer1_bass.sunvox", "bass_module")
  \o say("    OK layer1_bass.sunvox")

\* Building Block 3: Chord Synth
layer1_chords ==
  say("  1c. Chord synth module...")
  \o NewProject("chord_module")
  \o SetAttr("chord_module", "name", "Chord Module")
  \o new_module("chord_module", "chord_synth", [type |-> "Fm", name |-> "FM Chords",
       c_volume |-> 180, m_volume |-> 100, c_freq_ratio |-> 1, m_freq_ratio |-> 2,
       attack |-> 120, release |-> 180, sustain |-> TRUE, x |-> 256, y |-> 256,
       color |-> <<180, 120, 255>>])
  \o new_module("chord_module", "chord_reverb", [type |-> "Reverb",
       name |-> "Reverb", volume |-> 256, dryout |-> 200, wetout |-> 80,
       x |-> 384, y |-> 256, color |-> <<200, 140, 255>>])
  \o Chain3(Var("chord_synth"), Var("chord_reverb"), output("chord_module"))

layer1_chords_pattern ==
  NewPattern("chord_pattern", "Am Chord", 3, 32)
  \o attach_pattern("chord_module", "chord_pattern")
  \o NoteOn("chord_pattern", 0, 0, "A3", 80, "chord_synth")
  \o NoteOn("chord_pattern", 0, 1, "C4", 75, "chord_synth")
  \o NoteOn("chord_pattern", 0, 2, "E4", 75, "chord_synth")

layer1_chords_save ==
  WithOpenWrite("output_dir", "layer1_chords.sunvox", "chord_module")
  \o say("    OK layer1_chords.sunvox")

\* Building Block 4: Hi-Hat
layer1_hihat ==
  say("  1d. Hi-hat module...")
  \o NewProject("hihat_module")
  \o SetAttr("hihat_module", "name", "HiHat Module")
  \o new_module("hihat_module", "hihat", [type |-> "DrumSynth", name |-> "HiHats",
       bass_volume |-> 0, hihat_volume |-> 220, snare_volume |-> 0,
       x |-> 256, y |-> 256, color |-> <<255, 220, 100>>])
  \o Connect(Var("hihat"), output("hihat_module"))

layer1_hihat_pattern ==
  NewPattern("hihat_pattern", "Hats 8th", 1, 32)
  \o attach_pattern("hihat_module", "hihat_pattern")
  \o ForEach(range(0, 32, 4),
       LAMBDA line : NoteOn("hihat_pattern", line, 0, "C5", 85, "hihat"))

layer1_hihat_save ==
  WithOpenWrite("output_dir", "layer1_hihat.sunvox", "hihat_module")
  \o say("    OK layer1_hihat.sunvox")
  \o say("  -> Created 4 Layer 1 building blocks")

\* Section 1: Rhythm Section
layer2_rhythm ==
  say("[LAYER 2] Combining building blocks into sections...")
  \o say("  2a. Rhythm section (kick + hihat)...")
  \o NewProject("rhythm_section")
  \o SetAttr("rhythm_section", "name", "Rhythm Section")
  \o SetAttr("rhythm_section", "initial_bpm", 125)
  \o new_module("rhythm_section", "kick_meta", [type |-> "Kicker",
       name |-> "KICK (Load layer1_kick.sunvox here)", vol |-> 256, boost |-> 220,
       x |-> 256, y |-> 200, color |-> <<255, 100, 100>>])
  \o new_module("rhythm_section", "hihat_meta", [type |-> "DrumSynth",
       name |-> "HIHAT (Load layer1_hihat.sunvox here)", bass_volume |-> 0,
       hihat_volume |-> 220, snare_volume |-> 0, x |-> 256, y |-> 320,
       color |-> <<255, 220, 100>>])
  \o new_module("rhythm_section", "rhythm_mix", [type |-> "Amplifier",
       name |-> "Rhythm Mix", volume |-> 256, x |-> 450, y |-> 260,
       color |-> <<200, 200, 200>>])

\* kick, the Kicker of layer 1's kick_module, in place of kick_meta
layer2_rhythm_connections_stale ==
  Chain3(Var("kick"), Var("rhythm_mix"), output("rhythm_section"))
  \o Chain3(Var("hihat_meta"), Var("rhythm_mix"), output("rhythm_section"))

layer2_rhythm_connections ==
  Chain3(Var("kick_meta"), Var("rhythm_mix"), output("rhythm_section"))
  \o Chain3(Var("hihat_meta"), Var("rhythm_mix"), output("rhythm_section"))

layer2_rhythm_patterns ==
  NewPattern("kick_pat", "Kick Pattern", 1, 32)
  \o attach_pattern("rhythm_section", "kick_pat")
  \o ForEach(<<0, 8, 16, 24>>,
       LAMBDA line : NoteOn("kick_pat", line, 0, "C5", 120, "kick_meta"))
  \o NewPattern("hihat_pat", "HiHat Pattern", 1, 32)
  \o attach_pattern("rhythm_section", "hihat_pat")
  \o ForEach(range(0, 32, 4),
       LAMBDA line : NoteOn("hihat_pat", line, 0, "C5", 85, "hihat_meta"))

layer2_rhythm_save ==
  WithOpenWrite("output_dir", "layer2_rhythm_section.sunvox", "rhythm_section")
  \o say("    OK layer2_rhythm_section.sunvox")

\* Section 2: Harmonic Section
layer2_harmonic ==
  say("  2b. Harmonic section (bass + chords)...")
  \o NewProject("harmonic_section")
  \o SetAttr("harmonic_section", "name", "Harmonic Section")
  \o SetAttr("harmonic_section", "initial_bpm", 125)
  \o new_module("harmonic_section", "bass_meta", [type |-> "AnalogGenerator",
       name |-> "BASS (Load layer1_bass.sunvox here)", waveform |-> "sin",
       volume |-> 220, x |-> 256, y |-> 200, color |-> <<100, 150, 255>>])
  \o new_module("harmonic_section", "chords_meta", [type |-> "Fm",
       name |-> "CHORDS (Load layer1_chords.sunvox here)", c_volume |-> 180,
       m_volume |-> 100, x |-> 256, y |-> 320, color |-> <<180, 140, 255>>])
  \o new_module("harmonic_section", "harmonic_mix", [type |-> "Amplifier",
       name |-> "Harmonic Mix", volume |-> 256, x |-> 450, y |-> 260,
       color |-> <<200, 200, 200>>])

layer2_harmonic_connections ==
  Chain3(Var("bass_meta"), Var("harmonic_mix"), output("harmonic_section"))
  \o Chain3(Var("chords_meta"), Var("harmonic_mix"), output("harmonic_section"))

layer2_harmonic_patterns ==
  NewPattern("bass_pat", "Bass A", 1, 32)
  \o attach_pattern("harmonic_section", "bass_pat")
  \o NoteOn("bass_pat", 0, 0, "A2", 100, "bass_meta")
  \o NewPattern("chord_pat", "Am Chord", 3, 32)
  \o attach_pattern("harmonic_section", "chord_pat")
  \o NoteOn("chord_pat", 0, 0, "A3", 80, "chords_meta")
  \o NoteOn("chord_pat", 0, 1, "C4", 75, "chords_meta")
  \o NoteOn("chord_pat", 0, 2, "E4", 75, "chords_meta")

layer2_harmonic_save ==
  WithOpenWrite("output_dir", "layer2_harmonic_section.sunvox", "harmonic_section")
  \o say("    OK layer2_harmonic_section.sunvox")
  \o say("  -> Created 2 Layer 2 combined sections")

\* Layer 3: Final Track
layer3_final ==
  say("[LAYER 3] Creating final track from Layer 2 sections...")
  \o NewProject("final_track")
  \o SetAttr("final_track", "name", "Modular House Track - Layer 3")
  \o SetAttr("final_track", "initial_bpm", 125)
  \o new_module("final_track", "rhythm_meta", [type |-> "Amplifier",
       name |-> "RHYTHM SECTION (Load layer2_rhythm_section.sunvox)",
       volume |-> 256, x |-> 200, y |-> 200, color |-> <<255, 150, 150>>])
  \o new_module("final_track", "harmonic_meta", [type |-> "Amplifier",
       name |-> "HARMONIC SECTION (Load layer2_harmonic_section.sunvox)",
       volume |-> 230, x |-> 200, y |-> 350, color |-> <<150, 180, 255>>])
  \o new_module("final_track", "master_comp", [type |-> "Compressor",
       name |-> "Master Glue", volume |-> 256, threshold |-> 200, slope |-> 0,
       attack |-> 10, release |-> 150, x |-> 450, y |-> 275,
       color |-> <<255, 255, 150>>])

layer3_connections ==
  Chain3(Var("rhythm_meta"), Var("master_comp"), output("final_track"))
  \o Chain3(Var("harmonic_meta"), Var("master_comp"), output("final_track"))

layer3_pattern ==
  NewPattern("track_pattern", "Full Track", 2, 128)
  \o attach_pattern("final_track", "track_pattern")
  \o NoteOn("track_pattern", 0, 0, "C5", 100, "rhythm_meta")
  \o NoteOn("track_pattern", 0, 1, "C5", 100, "harmonic_meta")

layer3_save ==
  WithOpenWrite("output_dir", "layer3_final_track.sunvox", "final_track")
  \o say("    OK layer3_final_track.sunvox")
  \o say("  -> Created final Layer 3 composition")

mc_summary ==
  say("============================================================")
  \o say("OK MODULAR CONSTRUCTION COMPLETE!")
  \o say("============================================================")
  \o Say("Created hierarchical structure in: ", "output_dir", "")
  \o say("LAYER 1 - Building Blocks (4 files):")
  \o say("  layer1_kick.sunvox      - Kick drum + compression")
  \o say("  layer1_bass.sunvox      - Sub bass + filter")
  \o say("  layer1_chords.sunvox    - FM chords + reverb")
  \o say("  layer1_hihat.sunvox     - Hi-hat generator")
  \o say("LAYER 2 - Combined Sections (2 files):")
  \o say("  layer2_rhythm_section.sunvox   - Kick + HiHat combo")
  \o say("  layer2_harmonic_section.sunvox - Bass + Chords combo")
  \o say("LAYER 3 - Final Track (1 file):")
  \o say("  layer3_final_track.sunvox - Complete composition")
  \o say("============================================================")
  \o say("HOW TO USE THE MODULAR HIERARCHY:")
  \o say("============================================================")
  \o say("1. LAYER 1 files are self-contained instruments ... 5. WORKFLOW ...")
  \o say("============================================================")
  \o say("This demonstrates OBJECT-ORIENTED music composition!")
  \o say("============================================================")

create_modular_construction ==
  mc_header
  \o layer1_kick \o layer1_kick_pattern \o layer1_kick_save
  \o layer1_bass \o layer1_bass_pattern \o layer1_bass_save
  \o layer1_chords \o layer1_chords_pattern \o layer1_chords_save
  \o layer1_hihat \o layer1_hihat_pattern \o layer1_hihat_save
  \o layer2_rhythm \o layer2_rhythm_connections \o layer2_rhythm_patterns
  \o layer2_rhythm_save
  \o layer2_harmonic \o layer2_harmonic_connections \o layer2_harmonic_patterns
  \o layer2_harmonic_save
  \o layer3_final \o layer3_connections \o layer3_pattern \o layer3_save
  \o mc_summary

-----------------------------------------------------------------------------
(* The statements of the running script *)

Prog ==
  CASE script = "sidechain" -> generate_examples
    [] script = "house" -> basic_house_track
    [] script = "modular" -> create_modular_construction

Cur == Prog[pc]

\* The statement at pc is run whether or not an earlier one raised
AtOp_after_raise(o) == pc <= Len(Prog) /\ Cur.op = o

AtOp(o) == status = "running" /\ pc <= Len(Prog) /\ Cur.op = o

-----------------------------------------------------------------------------
(* Paths: a path is the sequence of its components below the root *)

\* Where generate_examples.py lies, and the name it has there
ScriptLocation == <<"repo", "8--Techniques", "Sidechain-Compression">>
ScriptName == "generate_examples.py"

\* The directory the other two scripts hard-code
HomeRepo == <<"home", "user", "Way-of-SunVox">>

\* Working directories the script is started from
Cwds == {<<"repo">>, ScriptLocation}

Prefixes(path) == {SubSeq(path, 1, n) : n \in 0..Len(path)}

\* __file__: absolute, or relative to the working directory of the start
file ==
  IF file_abs
    THEN [abs |-> TRUE, parts |-> Append(ScriptLocation, ScriptName)]
    ELSE [abs |-> FALSE,
          parts |-> SubSeq(Append(ScriptLocation, ScriptName), Len(cwd) + 1,
                           Len(ScriptLocation) + 1)]

abspath(p) == IF p.abs THEN p.parts ELSE cwd \o p.parts

dirname(parts) == SubSeq(parts, 1, Len(parts) - 1)

join(dir, name) == Append(dir, name)

\* The directory the process was started in, taken for the script's own
dirname_of_cwd == cwd

\* os.path.dirname(os.path.abspath(__file__))
dirname_abspath_file == dirname(abspath(file))

-----------------------------------------------------------------------------
(* Objects *)

\* Project(): attributes the scripts may set, unset until they do
NoAttrs ==
  [name |-> "", initial_bpm |-> 0, initial_tpl |-> 0,
   sunvox_version |-> <<>>, based_on_version |-> <<>>]

\* The index of the module added last, handed out again
NextIndex_reused(modules) == Len(modules) - 1

\* The index new_module gives the module it appends to p.modules
NextIndex(modules) == Len(modules)

\* A cell's module field written one too far
module_field_off(index) == index + 2

\* mod.index + 1, the value the scripts store in a cell's module field
module_field(index) == index + 1

\* A cell no statement has written
EmptyCell == [note |-> "EMPTY", vel |-> 0, module |-> 0]

\* pattern.data[line][track]
Cell(pat, line, track) ==
  IF <<line, track>> \in DOMAIN pat.data THEN pat.data[<<line, track>>] ELSE EmptyCell

InGrid(pat, line, track) == line \in 0..(pat.lines - 1) /\ track \in 0..(pat.tracks - 1)

\* The object an operand of >> denotes
Operand(e) == IF e.out THEN projs[env[e.var]].output ELSE env[e.var]

\* What write_to hands to the file: the project, its modules by index, its
\* connections by index, its patterns in attach order
Serialize(P) ==
  [attrs |-> projs[P].attrs,
   modules |-> [k \in 1..Len(projs[P].modules) |->
                  [index |-> mods[projs[P].modules[k]].index,
                   kw |-> mods[projs[P].modules[k]].kw]],
   conns |-> projs[P].conns,
   patterns |-> [k \in 1..Len(projs[P].patterns) |->
                   [name |-> pats[projs[P].patterns[k]].name,
                    tracks |-> pats[projs[P].patterns[k]].tracks,
                    lines |-> pats[projs[P].patterns[k]].lines,
                    data |-> pats[projs[P].patterns[k]].data]]]

\* The files this run opened, with what they hold now
Outputs ==
  [k \in 1..Len(files) |-> [path |-> files[k].path, content |-> disk[files[k].path]]]

-----------------------------------------------------------------------------
(* Initial states *)

Fresh ==
  /\ status = "running"
  /\ pc = 1
  /\ env = <<>>
  /\ projs = <<>>
  /\ mods = <<>>
  /\ pats = <<>>
  /\ files = <<>>
  /\ script_dir = <<>>
  /\ output_dir = <<>>
  /\ output_path = <<>>
  /\ f = 0
  /\ stdout = <<>>

Init ==
  /\ script \in {"sidechain", "house", "modular"}
  /\ \/ script = "sidechain" /\ cwd \in Cwds /\ file_abs \in BOOLEAN
        /\ dirs = Prefixes(ScriptLocation)
     \/ script # "sidechain" /\ cwd = <<"repo">> /\ file_abs = TRUE
        /\ dirs \in {Prefixes(ScriptLocation),
                     Prefixes(ScriptLocation) \cup Prefixes(HomeRepo)}
  /\ disk = <<>>
  /\ run = 1
  /\ prev = [outputs |-> <<>>, disk |-> <<>>, stdout |-> <<>>]
  /\ Fresh

-----------------------------------------------------------------------------
(* One action per kind of statement *)

Step == pc' = pc + 1 /\ status' = status
Fail == pc' = pc /\ status' = "failed"

Environment == <<script, cwd, file_abs, run, prev>>

\* v = Project()
DoProject ==
  /\ AtOp("Project")
  /\ LET P == Len(projs) + 1
         O == Len(mods) + 1
     IN /\ mods' = Append(mods, [parent |-> P, index |-> 0,
                                 kw |-> [type |-> "Output", name |-> "Output"]])
        /\ projs' = Append(projs, [attrs |-> NoAttrs, modules |-> <<O>>,
                                   conns |-> {}, patterns |-> <<>>, output |-> O])
        /\ env' = (Cur.var :> P) @@ env
  /\ Step
  /\ UNCHANGED <<Environment, dirs, disk, pats, files, script_dir, output_dir,
                 output_path, f, stdout>>

\* p.<attr> = val
DoSetAttr ==
  /\ AtOp("setattr")
  /\ projs' = [projs EXCEPT ![env[Cur.var]].attrs[Cur.attr] = Cur.val]
  /\ Step
  /\ UNCHANGED <<Environment, dirs, disk, env, mods, pats, files, script_dir,
                 output_dir, output_path, f, stdout>>

\* v = p.new_module(...)
DoNewModule ==
  /\ AtOp("new_module")
  /\ LET P == env[Cur.proj]
         M == Len(mods) + 1
     IN /\ mods' = Append(mods, [parent |-> P, index |-> NextIndex(projs[P].modules),
                                 kw |-> Cur.kw])
        /\ projs' = [projs EXCEPT ![P].modules = Append(@, M)]
        /\ env' = (Cur.var :> M) @@ env
  /\ Step
  /\ UNCHANGED <<Environment, dirs, disk, pats, files, script_dir, output_dir,
                 output_path, f, stdout>>

\* a >> b: a.parent.connect(a, b), which refuses a module of another project
DoConnect ==
  /\ AtOp("connect")
  /\ LET s == Operand(Cur.src)
         d == Operand(Cur.dst)
         P == mods[s].parent
     IN IF mods[d].parent = P
          THEN /\ projs' = [projs EXCEPT ![P].conns = @ \cup {<<mods[s].index, mods[d].index>>}]
               /\ Step
          ELSE /\ projs' = projs
               /\ Fail
  /\ UNCHANGED <<Environment, dirs, disk, env, mods, pats, files, script_dir,
                 output_dir, output_path, f, stdout>>

\* v = Pattern(name=, tracks=, lines=)
DoPattern ==
  /\ AtOp("Pattern")
  /\ pats' = Append(pats, [name |-> Cur.name, tracks |-> Cur.tracks, lines |-> Cur.lines,
                           data |-> <<>>, project |-> 0])
  /\ env' = (Cur.var :> (Len(pats) + 1)) @@ env
  /\ Step
  /\ UNCHANGED <<Environment, dirs, disk, projs, mods, files, script_dir, output_dir,
                 output_path, f, stdout>>

\* p.attach_pattern(v)
DoAttachPattern ==
  /\ AtOp("attach_pattern")
  /\ projs' = [projs EXCEPT ![env[Cur.proj]].patterns = Append(@, env[Cur.var])]
  /\ pats' = [pats EXCEPT ![env[Cur.var]].project = env[Cur.proj]]
  /\ Step
  /\ UNCHANGED <<Environment, dirs, disk, env, mods, files, script_dir, output_dir,
                 output_path, f, stdout>>

\* v.data[line][track].<field> = value; an index outside the grid raises
WriteCell(field, value) ==
  LET k == env[Cur.var]
      at == <<Cur.line, Cur.track>>
  IN IF InGrid(pats[k], Cur.line, Cur.track)
       THEN /\ pats' = [pats EXCEPT ![k].data =
                          (at :> [Cell(pats[k], Cur.line, Cur.track) EXCEPT ![field] = value]) @@ @]
            /\ Step
       ELSE /\ pats' = pats
            /\ Fail

DoSetNote ==
  /\ AtOp("note")
  /\ WriteCell("note", Cur.val)
  /\ UNCHANGED <<Environment, dirs, disk, env, projs, mods, files, script_dir,
                 output_dir, output_path, f, stdout>>

DoSetVel ==
  /\ AtOp("vel")
  /\ WriteCell("vel", Cur.val)
  /\ UNCHANGED <<Environment, dirs, disk, env, projs, mods, files, script_dir,
                 output_dir, output_path, f, stdout>>

DoSetModule ==
  /\ AtOp("module")
  /\ WriteCell("module", module_field(mods[env[Cur.mod]].index))
  /\ UNCHANGED <<Environment, dirs, disk, env, projs, mods, files, script_dir,
                 output_dir, output_path, f, stdout>>

\* script_dir = os.path.dirname(os.path.abspath(__file__))
DoScriptDir ==
  /\ AtOp("script_dir")
  /\ script_dir' = dirname_abspath_file
  /\ Step
  /\ UNCHANGED <<Environment, dirs, disk, env, projs, mods, pats, files, output_dir,
                 output_path, f, stdout>>

\* output_dir = "/home/user/Way-of-SunVox/modular_construction"
DoOutputDir ==
  /\ AtOp("output_dir")
  /\ output_dir' = Cur.path
  /\ Step
  /\ UNCHANGED <<Environment, dirs, disk, env, projs, mods, pats, files, script_dir,
                 output_path, f, stdout>>

\* os.makedirs(output_dir, exist_ok=True): the directory and its missing parents
DoMakedirs ==
  /\ AtOp("makedirs")
  /\ dirs' = dirs \cup Prefixes(output_dir)
  /\ Step
  /\ UNCHANGED <<Environment, disk, env, projs, mods, pats, files, script_dir,
                 output_dir, output_path, f, stdout>>

\* output_path = os.path.join(script_dir, name), or a literal
DoOutputPath ==
  /\ AtOp("output_path")
  /\ output_path' = IF Cur.base = "script_dir" THEN join(script_dir, Cur.name)
                                               ELSE join(Cur.base, Cur.name)
  /\ Step
  /\ UNCHANGED <<Environment, dirs, disk, env, projs, mods, pats, files, script_dir,
                 output_dir, f, stdout>>

\* open(path, 'wb'): creates or truncates the file; no such directory raises
DoOpen ==
  /\ AtOp("open")
  /\ LET path == IF Cur.where = "output_path" THEN output_path
                                              ELSE join(output_dir, Cur.name)
     IN IF dirname(path) \in dirs
          THEN /\ files' = Append(files, [path |-> path, closed |-> FALSE, wrote |-> <<>>])
               /\ disk' = (path :> [bytes |-> <<>>, torn |-> FALSE]) @@ disk
               /\ f' = Len(files) + 1
               /\ Step
          ELSE /\ UNCHANGED <<files, disk, f>>
               /\ Fail
  /\ UNCHANGED <<Environment, dirs, env, projs, mods, pats, script_dir, output_dir,
                 output_path, stdout>>

\* p.write_to(f)
DoWriteTo ==
  /\ AtOp("write_to")
  /\ LET P == env[Cur.proj]
     IN /\ files' = [files EXCEPT ![f].wrote = Append(@, P)]
        /\ disk' = [disk EXCEPT ![files[f].path].bytes = Append(@, Serialize(P))]
  /\ Step
  /\ UNCHANGED <<Environment, dirs, env, projs, mods, pats, script_dir, output_dir,
                 output_path, f, stdout>>

\* leaving the with block closes f
DoClose ==
  /\ AtOp("close")
  /\ files' = [files EXCEPT ![f].closed = TRUE]
  /\ Step
  /\ UNCHANGED <<Environment, dirs, disk, env, projs, mods, pats, script_dir,
                 output_dir, output_path, f, stdout>>

\* print(...)
Interpolated ==
  CASE Cur.val = "output_path" -> <<"path", output_path>>
    [] Cur.val = "output_dir" -> <<"path", output_dir>>
    [] Cur.val = "bpm" -> <<"int", projs[env[Cur.proj]].attrs.initial_bpm>>
    [] Cur.val = "modules" -> <<"int", Len(projs[env[Cur.proj]].modules)>>
    [] Cur.val = "patterns" -> <<"int", Len(projs[env[Cur.proj]].patterns)>>
    [] OTHER -> <<"none">>

DoSay ==
  /\ AtOp("print")
  /\ stdout' = Append(stdout, [text |-> Cur.text, val |-> Interpolated])
  /\ Step
  /\ UNCHANGED <<Environment, dirs, disk, env, projs, mods, pats, files, script_dir,
                 output_dir, output_path, f>>

\* The library or the operating system raises in a call; nothing catches it.
\* Inside the with block the file is closed on the way out.
RaisingOps ==
  {"Project", "setattr", "new_module", "connect", "Pattern", "attach_pattern",
   "note", "vel", "module", "makedirs", "open", "write_to"}

Raise ==
  /\ status = "running" /\ pc <= Len(Prog) /\ Cur.op \in RaisingOps
  /\ Fail
  /\ IF Cur.op = "write_to"
       THEN /\ files' = [files EXCEPT ![f].closed = TRUE]
            /\ disk' = [disk EXCEPT ![files[f].path].torn = TRUE]
       ELSE UNCHANGED <<files, disk>>
  /\ UNCHANGED <<Environment, dirs, env, projs, mods, pats, script_dir, output_dir,
                 output_path, f, stdout>>

\* The script falls off its end
Finish ==
  /\ status = "running" /\ pc > Len(Prog)
  /\ status' = "done"
  /\ UNCHANGED <<Environment, dirs, disk, pc, env, projs, mods, pats, files,
                 script_dir, output_dir, output_path, f, stdout>>

\* The same script is started again over the disk the last run left
Rerun ==
  /\ status = "done" /\ run < MaxRuns
  /\ run' = run + 1
  /\ prev' = [outputs |-> Outputs, disk |-> disk, stdout |-> stdout]
  /\ cwd' \in (IF script = "sidechain" THEN Cwds ELSE {cwd})
  /\ status' = "running"
  /\ pc' = 1
  /\ env' = <<>>
  /\ projs' = <<>>
  /\ mods' = <<>>
  /\ pats' = <<>>
  /\ files' = <<>>
  /\ script_dir' = <<>>
  /\ output_dir' = <<>>
  /\ output_path' = <<>>
  /\ f' = 0
  /\ stdout' = <<>>
  /\ UNCHANGED <<script, file_abs, dirs, disk>>

Next ==
  \/ DoProject \/ DoSetAttr \/ DoNewModule \/ DoConnect \/ DoPattern
  \/ DoAttachPattern \/ DoSetNote \/ DoSetVel \/ DoSetModule \/ DoScriptDir
  \/ DoOutputDir \/ DoMakedirs \/ DoOutputPath \/ DoOpen \/ DoWriteTo \/ DoClose \/ DoSay \/ Raise
  \/ Finish \/ Rerun

Spec == Init /\ [][Next]_vars

-----------------------------------------------------------------------------
(* What the claims speak about *)

\* Every project as it was serialized into a file on disk
Snaps == UNION {{disk[p].bytes[k] : k \in 1..Len(disk[p].bytes)} : p \in DOMAIN disk}

\* The patterns of a serialized project
PatternsOf(snap) == {snap.patterns[k] : k \in 1..Len(snap.patterns)}

\* The modules of a serialized project
ModulesOf(snap) == {snap.modules[k] : k \in 1..Len(snap.modules)}

IsNoteOn(cell) == cell.note \notin {"EMPTY", "NOTE_OFF"}

IsNoteOff(cell) == cell.note = "NOTE_OFF"

\* The lines of track t that hold a note-on, a note-off
\* (only written cells can hold one, and every written cell lies in the grid)
WrittenLines(pat, t) == {c[1] : c \in {d \in DOMAIN pat.data : d[2] = t}}
NoteOnLines(pat, t) == {l \in WrittenLines(pat, t) : IsNoteOn(Cell(pat, l, t))}
NoteOffLines(pat, t) == {l \in WrittenLines(pat, t) : IsNoteOff(Cell(pat, l, t))}

\* l1 < l2 are note-ons of track t with no note-on between them
ConsecutiveOns(pat, t, l1, l2) ==
  /\ l1 \in NoteOnLines(pat, t) /\ l2 \in NoteOnLines(pat, t) /\ l1 < l2
  /\ \A l \in NoteOnLines(pat, t) : ~(l1 < l /\ l < l2)

OffBetween(pat, t, l1, l2) == \E l \in NoteOffLines(pat, t) : l1 < l /\ l < l2

-----------------------------------------------------------------------------
(* C1: in every serialized project, every pattern cell whose module field
   is not 0 names, as field - 1, the index of a module of that project. *)
C1_NoDanglingTarget ==
  \A snap \in Snaps : \A pat \in PatternsOf(snap) : \A c \in DOMAIN pat.data :
    pat.data[c].module # 0 =>
      \E m \in ModulesOf(snap) : m.index = pat.data[c].module - 1

\* A finished run whose files hold cells that target modules
C1_Witness ==
  /\ status = "done"
  /\ \E snap \in Snaps : \E pat \in PatternsOf(snap) : \E c \in DOMAIN pat.data :
       pat.data[c].module > 1

(* C2 as stated: on every track of every serialized pattern, between two
   consecutive note-ons that target the same module lies a note-off. *)
C2_OffBetweenAllOns ==
  \A snap \in Snaps : \A pat \in PatternsOf(snap) : \A t \in 0..(pat.tracks - 1) :
    \A l1, l2 \in NoteOnLines(pat, t) :
      (ConsecutiveOns(pat, t, l1, l2)
         /\ Cell(pat, l1, t).module = Cell(pat, l2, t).module)
        => OffBetween(pat, t, l1, l2)

(* C2 amended: on every track that holds a note-off at all, between two
   consecutive note-ons lies a note-off. *)
C2_OffBetweenOnsOfSustainedTracks ==
  \A snap \in Snaps : \A pat \in PatternsOf(snap) : \A t \in 0..(pat.tracks - 1) :
    NoteOffLines(pat, t) # {} =>
      \A l1, l2 \in NoteOnLines(pat, t) :
        ConsecutiveOns(pat, t, l1, l2) => OffBetween(pat, t, l1, l2)

\* The house track is on disk: its lead holds eight note-ons and eight note-offs
C2_Witness ==
  \E snap \in Snaps : \E pat \in PatternsOf(snap) :
    /\ pat.name = "Lead Melody"
    /\ Cardinality(NoteOnLines(pat, 0)) = 8
    /\ Cardinality(NoteOffLines(pat, 0)) = 8

\* The modules one connection away from a module of S
Successors(conns, S) == {e[2] : e \in {c \in conns : c[1] \in S}}

RECURSIVE Closure(_, _)
Closure(conns, S) ==
  LET N == S \cup Successors(conns, S)
  IN IF N = S THEN S ELSE Closure(conns, N)

\* A directed path of one or more connections leads from index a to index b
Path(conns, a, b) == b \in Closure(conns, Successors(conns, {a}))

\* The modules C3 names as pure control sources
IsSound2Ctl(m) == m.kw.type = "Sound2Ctl"
IsVocalTrigger(m) == m.kw.type = "Kicker" /\ m.kw.name = "Vocal Trigger" /\ m.kw.vol = 0
IsPumpLfo(m) == m.kw.type = "Lfo" /\ m.kw.name = "Pump LFO"

(* C3 as stated: in every serialized project the Sound2Ctl modules, the
   Vocal Trigger and the Pump LFO have no path to Output (index 0), and
   every other module has one. *)
C3_ControlSourcesOffOutput ==
  \A snap \in Snaps : \A m \in ModulesOf(snap) :
    m.index # 0 =>
      (Path(snap.conns, m.index, 0)
         <=> ~(IsSound2Ctl(m) \/ IsVocalTrigger(m) \/ IsPumpLfo(m)))

(* C3 amended: the Sound2Ctl modules and the Vocal Trigger have no path to
   Output; every other module, the Pump LFO included (through Bass and LFO
   Pump), has one. *)
C3_OnlyTriggersOffOutput ==
  \A snap \in Snaps : \A m \in ModulesOf(snap) :
    m.index # 0 =>
      (Path(snap.conns, m.index, 0) <=> ~(IsSound2Ctl(m) \/ IsVocalTrigger(m)))

\* All six sidechain examples are on disk, the LFO of example 6 wired to Output
C3_Witness ==
  /\ status = "done"
  /\ \E snap \in Snaps : \E m \in ModulesOf(snap) : IsVocalTrigger(m)
  /\ \E snap \in Snaps : \E m \in ModulesOf(snap) :
       IsPumpLfo(m) /\ Path(snap.conns, m.index, 0)

(* C4: a run that completes after an earlier completed run of the same
   script (same script location, whatever the working directory) has
   written the same files with the same content in the same order, printed
   the same lines, and left the disk as the earlier run left it. *)
C4_Deterministic ==
  (status = "done" /\ run > 1) =>
    /\ Outputs = prev.outputs
    /\ stdout = prev.stdout
    /\ disk = prev.disk

\* A second run of the sidechain script, started from another directory than
\* the one it computes its output paths from, has completed
C4_Witness ==
  /\ status = "done" /\ run > 1 /\ script = "sidechain"
  /\ cwd # script_dir
  /\ Len(Outputs) = 6
  /\ \A k \in 1..Len(Outputs) : Len(Outputs[k].content.bytes) = 1

\* The names of the four-on-the-floor kick patterns
FourOnFloorNames == {"Kick", "Intro Kick", "Four on Floor", "Kick Pattern"}

\* The cells of a pattern that are not empty
NonEmptyCells(pat) ==
  {c \in (0..(pat.lines - 1)) \X (0..(pat.tracks - 1)) : Cell(pat, c[1], c[2]) # EmptyCell}

(* C5: every serialized four-on-the-floor kick pattern (32 lines, 1 track)
   has non-empty cells at exactly lines 0, 8, 16, 24 of track 0, each a
   note-on that targets a Kicker module of its project. *)
C5_FourOnTheFloor ==
  \A snap \in Snaps : \A pat \in PatternsOf(snap) :
    pat.name \in FourOnFloorNames =>
      /\ pat.lines = 32 /\ pat.tracks = 1
      /\ NonEmptyCells(pat) = {<<0, 0>>, <<8, 0>>, <<16, 0>>, <<24, 0>>}
      /\ \A c \in NonEmptyCells(pat) :
           /\ IsNoteOn(pat.data[c])
           /\ \E m \in ModulesOf(snap) :
                m.index = pat.data[c].module - 1 /\ m.kw.type = "Kicker"

\* The house track is on disk with both of its kick patterns
C5_Witness ==
  \E snap \in Snaps :
    /\ \E pat \in PatternsOf(snap) : pat.name = "Kick"
    /\ \E pat \in PatternsOf(snap) : pat.name = "Intro Kick"

\* Playback of one track: whether a note sounds once line l has been played,
\* lines 0..l in order; a note-on starts the track's note, a note-off ends it,
\* an empty cell leaves it as it was
RECURSIVE NoteActive(_, _, _)
NoteActive(pat, t, l) ==
  IF l < 0 THEN FALSE
  ELSE IF IsNoteOn(Cell(pat, l, t)) THEN TRUE
  ELSE IF IsNoteOff(Cell(pat, l, t)) THEN FALSE
  ELSE NoteActive(pat, t, l - 1)

\* The two sustained 32-line bass patterns: by project name and pattern name
IsSustainedBass(snap, pat) ==
  \/ snap.attrs.name = "Sidechain - Basic EDM" /\ pat.name = "Bass"
  \/ snap.attrs.name = "Bass Module" /\ pat.name = "Bass A"

(* C6: the sustained bass patterns (sidechain example 1 "Bass", modular
   layer 1 "Bass A") have 32 lines, a note-on at line 0 and a NOTE_OFF at
   line 30 of track 0, and played from line 0 the note of track 0 is active
   at every line of 0..29 and inactive at lines 30 and 31. *)
C6_SustainedBass ==
  \A snap \in Snaps : \A pat \in PatternsOf(snap) :
    IsSustainedBass(snap, pat) =>
      /\ pat.lines = 32
      /\ IsNoteOn(Cell(pat, 0, 0)) /\ IsNoteOff(Cell(pat, 30, 0))
      /\ \A l \in 0..29 : NoteActive(pat, 0, l)
      /\ ~NoteActive(pat, 0, 30) /\ ~NoteActive(pat, 0, 31)

\* Sidechain example 1 is on disk with its bass pattern
C6_Witness ==
  \E snap \in Snaps : \E pat \in PatternsOf(snap) :
    /\ snap.attrs.name = "Sidechain - Basic EDM" /\ pat.name = "Bass"
    /\ NoteActive(pat, 0, 29) /\ ~NoteActive(pat, 0, 30)

\* The module objects of project P
ModulesIn(P) == {m \in 1..Len(mods) : mods[m].parent = P}

(* C7: within a project no two modules (Output included) have the same
   index, in the heap as in every serialized project, and no step of a run
   changes the index or the project of a module that exists. *)
C7_IndexUniqueAndStable ==
  /\ [](/\ \A a, b \in 1..Len(mods) :
             (a # b /\ mods[a].parent = mods[b].parent) => mods[a].index # mods[b].index
        /\ \A snap \in Snaps : \A k, j \in 1..Len(snap.modules) :
             k # j => snap.modules[k].index # snap.modules[j].index)
  /\ [][run' = run =>
          \A m \in 1..Len(mods) :
            /\ m <= Len(mods')
            /\ mods'[m].index = mods[m].index
            /\ mods'[m].parent = mods[m].parent]_vars

\* The house track with its twelve modules, its cells written, is saved
C7_Witness ==
  /\ script = "house" /\ status = "done"
  /\ Cardinality(ModulesIn(1)) = 12
  /\ \E snap \in Snaps : \E pat \in PatternsOf(snap) : \E c \in DOMAIN pat.data :
       pat.data[c].module = 10

\* The places (project, position) where pattern k is attached
AttachedAt(k) ==
  {pi \in (1..Len(projs)) \X (1..Len(pats)) :
     pi[2] <= Len(projs[pi[1]].patterns) /\ projs[pi[1]].patterns[pi[2]] = k}

AtCellWrite == AtOp("note") \/ AtOp("vel") \/ AtOp("module")

(* C8: every >> about to run joins two modules of one project; every
   connection a project holds joins indices of its own modules; every
   module belongs to the module list of its own project only; a pattern is
   attached at most once, and once the script is done exactly once; every
   module field about to be written takes the index of a module of the
   project the pattern is attached to. *)
C8_NothingShared ==
  /\ AtOp("connect") =>
       mods[Operand(Cur.src)].parent = mods[Operand(Cur.dst)].parent
  /\ \A P \in 1..Len(projs) :
       /\ \A c \in projs[P].conns :
            \A i \in {c[1], c[2]} : \E m \in ModulesIn(P) : mods[m].index = i
       /\ \A k \in 1..Len(projs[P].modules) : mods[projs[P].modules[k]].parent = P
  /\ \A k \in 1..Len(pats) :
       /\ Cardinality(AttachedAt(k)) <= 1
       /\ \A pi \in AttachedAt(k) : pats[k].project = pi[1]
       /\ status = "done" => Cardinality(AttachedAt(k)) = 1
  /\ AtOp("module") =>
       pats[env[Cur.var]].project = mods[env[Cur.mod]].parent

\* The modular script, which reuses the names kick, bass, chord_reverb and
\* master_comp across its seven projects, is done
C8_Witness ==
  /\ script = "modular" /\ status = "done"
  /\ Len(projs) = 7
  /\ \A P \in 1..Len(projs) : projs[P].conns # {} /\ projs[P].patterns # <<>>

\* How often write_to was called on project P
Writes(P) ==
  Cardinality({ki \in (1..Len(files)) \X (1..Len(projs)) :
                 ki[2] <= Len(files[ki[1]].wrote) /\ files[ki[1]].wrote[ki[2]] = P})

(* C9: write_to is called at most once on a project, and exactly once by
   the time the script is done; when it is about to be called every pattern
   created so far is attached; and once it was called no step of the run
   changes the project's modules, connections, patterns or cells. *)
C9_WrittenOnceAndLast ==
  /\ [](/\ \A P \in 1..Len(projs) :
             /\ Writes(P) <= 1
             /\ status = "done" => Writes(P) = 1
        /\ AtOp("write_to") => \A k \in 1..Len(pats) : pats[k].project # 0)
  /\ [][run' = run =>
          \A P \in 1..Len(projs) :
            Writes(P) >= 1 => Serialize(P)' = Serialize(P)]_vars

\* The house script is done: its one project written, the summary printed after
C9_Witness ==
  /\ script = "house" /\ status = "done"
  /\ Writes(1) = 1
  /\ Len(projs[1].patterns) = 7

(* C10 as stated: a pattern is not attached yet while its cells are
   written, and a project is not serialized yet when a pattern is attached. *)
C10_CellsThenAttach ==
  /\ AtCellWrite => pats[env[Cur.var]].project = 0
  /\ AtOp("attach_pattern") => Writes(env[Cur.proj]) = 0

(* C10 amended: a pattern is attached while it is still empty, to a project
   not serialized yet; its cells are written after it is attached and
   before its project is serialized. *)
C10_AttachThenCells ==
  /\ AtOp("attach_pattern") =>
       /\ DOMAIN pats[env[Cur.var]].data = {}
       /\ Writes(env[Cur.proj]) = 0
  /\ AtCellWrite =>
       /\ pats[env[Cur.var]].project # 0
       /\ Writes(pats[env[Cur.var]].project) = 0

\* A cell of an attached pattern is about to be written
C10_Witness ==
  /\ AtOp("vel")
  /\ pats[env[Cur.var]].project # 0
  /\ DOMAIN pats[env[Cur.var]].data # {}

-----------------------------------------------------------------------------
\* The paths of the files this run opened and wrote a project to
WrittenPaths == {files[k].path : k \in {j \in 1..Len(files) : files[j].wrote # <<>>}}

\* How many projects each script builds and saves
FilesOf(s) ==
  CASE s = "house" -> 1
    [] s = "sidechain" -> 6
    [] s = "modular" -> 7

(* C11 as stated: a script that ran to completion has written exactly one
   project file. *)
C11_OneFilePerScript ==
  status = "done" => Cardinality(WrittenPaths) = 1

(* C11 amended: a script that ran to completion has written exactly one
   project file per project it built, each to a path of its own, each
   holding one complete serialized project: one file for the house track,
   six for the sidechain examples, seven for the modular construction. *)
C11_OneFilePerProject ==
  status = "done" =>
    /\ Len(files) = Len(projs)
    /\ Len(files) = FilesOf(script)
    /\ Cardinality(WrittenPaths) = Len(files)
    /\ \A k \in 1..Len(files) :
         /\ files[k].wrote = <<k>>
         /\ Len(disk[files[k].path].bytes) = 1
         /\ ~disk[files[k].path].torn

\* The modular construction is done with its seven files
C11_Witness ==
  /\ status = "done" /\ script = "modular"
  /\ Cardinality(WrittenPaths) = 7

-----------------------------------------------------------------------------
\* The file objects that are open
OpenHandles == {k \in 1..Len(files) : ~files[k].closed}

\* How many write_to calls file object k has received: those that returned
\* and the one that raised
WriteToCalls(k) ==
  Len(files[k].wrote) + (IF disk[files[k].path].torn THEN 1 ELSE 0)

(* C12: at most one file handle is open at any point of a run; an open
   handle is the one bound to f, inside its with block; no handle is open
   when a project is about to be created, when a file is about to be
   opened, or when the run has ended, be it by a raise of write_to; a
   closed handle has received exactly one write_to call and an open one at
   most one. *)
C12_OneHandleWrittenOnceClosed ==
  /\ Cardinality(OpenHandles) <= 1
  /\ \A k \in OpenHandles :
       /\ k = f /\ k = Len(files) /\ status = "running"
       /\ AtOp("write_to") \/ AtOp("close")
       /\ WriteToCalls(k) = (IF AtOp("write_to") THEN 0 ELSE 1)
  /\ (AtOp("Project") \/ AtOp("open") \/ status # "running") => OpenHandles = {}
  /\ \A k \in (1..Len(files)) \ OpenHandles : WriteToCalls(k) = 1

\* write_to raised on the second file of a run: the run has failed with
\* both handles closed
C12_Witness ==
  /\ status = "failed"
  /\ Len(files) = 2
  /\ disk[files[2].path].torn
  /\ files[2].closed /\ files[2].wrote = <<>>
  /\ files[1].closed /\ files[1].wrote = <<1>>

-----------------------------------------------------------------------------
\* The file objects that were written and closed: their files are complete
CompleteFiles == {k \in 1..Len(files) : files[k].closed /\ files[k].wrote # <<>>}

(* C13: a step in which a call raises ends the run as failed and builds
   nothing: projects, modules, patterns, bindings and what was printed stay
   as they were, no file object is added, and every file completely written
   earlier in the run keeps its content; from a failed run no further step
   is taken, so nothing is caught, retried or written afterwards. *)
C13_RaiseStopsTheRun ==
  [][/\ status = "failed" => UNCHANGED vars
     /\ (status = "running" /\ status' = "failed") =>
          /\ UNCHANGED <<pc, env, projs, mods, pats, stdout, dirs, f>>
          /\ Len(files') = Len(files)
          /\ \A k \in CompleteFiles :
               /\ files'[k] = files[k]
               /\ disk'[files[k].path] = disk[files[k].path]
               /\ disk[files[k].path].bytes = <<Serialize(files[k].wrote[1])>>]_vars

\* Example 1 is on disk complete and a connection of example 2 has raised
C13_Witness ==
  /\ status = "failed" /\ script = "sidechain"
  /\ CompleteFiles = {1} /\ Len(files) = 1
  /\ disk[files[1].path].bytes = <<Serialize(1)>>
  /\ Len(projs) = 2
  /\ Cur.op = "connect"

-----------------------------------------------------------------------------
\* The arrangement guide basic_house_track.py prints: line i + 1 is about
\* pattern index i; with it the pattern and the module the line speaks of
ArrangementGuide ==
  << [text |-> "    0: Kick (four-on-the-floor)", pattern |-> "Kick", module |-> "Kick"],
     [text |-> "    1: Hi-hats (8th notes)", pattern |-> "Hihats", module |-> "Drums"],
     [text |-> "    2: Claps (2 & 4)", pattern |-> "Claps", module |-> "Clap"],
     [text |-> "    3: Bassline (Am-F-C-G)", pattern |-> "Bassline", module |-> "Sub Bass"],
     [text |-> "    4: Chords (Am-F-C-G)", pattern |-> "Chords", module |-> "Chords"],
     [text |-> "    5: Lead melody", pattern |-> "Lead Melody", module |-> "Lead"],
     [text |-> "    6: Intro kick (softer)", pattern |-> "Intro Kick", module |-> "Kick"] >>

\* The names of the modules of snap the cells of pat target
TargetNames(snap, pat) ==
  {m.kw.name : m \in {n \in ModulesOf(snap) :
                        \E c \in DOMAIN pat.data : pat.data[c].module = n.index + 1}}

\* The velocities of the note-ons of pat
Velocities(pat) == {pat.data[c].vel : c \in {d \in DOMAIN pat.data : IsNoteOn(pat.data[d])}}

(* C14: the house track is serialized with exactly 7 patterns; the pattern
   at index i has the name the arrangement guide gives for i and all its
   cells target the one module the guide implies (Kick, Drums, Clap, Sub
   Bass, Chords, Lead, Kick); the intro kick is softer than the kick; and a
   completed run has printed the guide's seven lines in index order. *)
C14_PatternsMatchGuide ==
  script = "house" =>
    /\ \A snap \in Snaps :
         /\ Len(snap.patterns) = 7
         /\ \A i \in 1..7 :
              /\ snap.patterns[i].name = ArrangementGuide[i].pattern
              /\ TargetNames(snap, snap.patterns[i]) = {ArrangementGuide[i].module}
              /\ \A c \in DOMAIN snap.patterns[i].data : snap.patterns[i].data[c].module # 0
         /\ \A v \in Velocities(snap.patterns[7]) : \A w \in Velocities(snap.patterns[1]) : v < w
    /\ status = "done" =>
         /\ Snaps # {}
         /\ \E k \in 1..Len(stdout) :
              \A i \in 1..7 : k + i <= Len(stdout) /\ stdout[k + i].text = ArrangementGuide[i].text

\* The house script is done: track saved and guide printed
C14_Witness ==
  /\ script = "house" /\ status = "done"
  /\ \E snap \in Snaps : Len(snap.patterns) = 7 /\ snap.patterns[7].name = "Intro Kick"
  /\ \E k \in 1..Len(stdout) : stdout[k].text = ArrangementGuide[7].text

-----------------------------------------------------------------------------
\* The files create_modular_construction.py writes, in the order it writes
\* them: name, layer, and the line printed after the with block
ModularFiles ==
  << [name |-> "layer1_kick.sunvox", layer |-> 1, text |-> "    OK layer1_kick.sunvox"],
     [name |-> "layer1_bass.sunvox", layer |-> 1, text |-> "    OK layer1_bass.sunvox"],
     [name |-> "layer1_chords.sunvox", layer |-> 1, text |-> "    OK layer1_chords.sunvox"],
     [name |-> "layer1_hihat.sunvox", layer |-> 1, text |-> "    OK layer1_hihat.sunvox"],
     [name |-> "layer2_rhythm_section.sunvox", layer |-> 2,
      text |-> "    OK layer2_rhythm_section.sunvox"],
     [name |-> "layer2_harmonic_section.sunvox", layer |-> 2,
      text |-> "    OK layer2_harmonic_section.sunvox"],
     [name |-> "layer3_final_track.sunvox", layer |-> 3,
      text |-> "    OK layer3_final_track.sunvox"] >>

\* The paths of the files written and closed in this run
CompletePaths == {files[k].path : k \in CompleteFiles}

\* The files of a layer written and closed in this run
CompleteOfLayer(n) ==
  {i \in 1..Len(ModularFiles) :
     ModularFiles[i].layer = n /\ join(output_dir, ModularFiles[i].name) \in CompletePaths}

\* The layer of file object k of the modular script
LayerOf(k) ==
  LET i == CHOOSE j \in 1..Len(ModularFiles) :
             files[k].path = join(output_dir, ModularFiles[j].name)
  IN ModularFiles[i].layer

Printed(text) == \E k \in 1..Len(stdout) : stdout[k].text = text

(* C15: a printed per-file success line names a file that this run has
   written and closed (the path interpolated into "Created: " and "File: ",
   the file named by a layer line, the single file of the house track); a
   printed count line stands after exactly that many complete files of its
   group in this run (4 of Layer 1, 2 of Layer 2, 1 of Layer 3, all 6
   sidechain examples); and the modular script opens its files in layer
   order, a Layer 2 file only with all four Layer 1 files complete, the
   Layer 3 file only with both Layer 2 files complete. *)
C15_NoMessageBeforeItsWrite ==
  /\ \A k \in 1..Len(stdout) :
       /\ stdout[k].text \in {"   OK Created: ", "File: "} =>
            stdout[k].val[2] \in CompletePaths
       /\ stdout[k].text = "OK Basic house track created successfully!" =>
            Cardinality(CompleteFiles) = 1 /\ Len(files) = 1
       /\ stdout[k].text = "OK All 6 sidechain example files generated successfully!" =>
            Cardinality(CompletePaths) = 6 /\ Len(files) = 6
  /\ \A i \in 1..Len(ModularFiles) :
       Printed(ModularFiles[i].text) =>
         join(output_dir, ModularFiles[i].name) \in CompletePaths
  /\ Printed("  -> Created 4 Layer 1 building blocks") =>
       Cardinality(CompleteOfLayer(1)) = 4
  /\ Printed("  -> Created 2 Layer 2 combined sections") =>
       Cardinality(CompleteOfLayer(2)) = 2
  /\ Printed("  -> Created final Layer 3 composition") =>
       Cardinality(CompleteOfLayer(3)) = 1
  /\ script = "modular" =>
       /\ \A a, b \in 1..Len(files) : a < b => LayerOf(a) <= LayerOf(b)
       /\ \A k \in 1..Len(files) :
            /\ LayerOf(k) >= 2 => Cardinality(CompleteOfLayer(1)) = 4
            /\ LayerOf(k) = 3 => Cardinality(CompleteOfLayer(2)) = 2

\* The modular construction has printed all three count lines over its
\* seven complete files
C15_Witness ==
  /\ script = "modular"
  /\ Printed("  -> Created final Layer 3 composition")
  /\ Printed("  -> Created 2 Layer 2 combined sections")
  /\ Printed("  -> Created 4 Layer 1 building blocks")
  /\ Cardinality(CompletePaths) = 7

-----------------------------------------------------------------------------
\* The modules basic_house_track.py creates
HouseModuleNames ==
  {"Kick", "Drums", "Clap", "Sub Bass", "Bass Comp", "Chords", "Chord Filter",
   "Chord Reverb", "Lead", "Lead Delay", "Master Comp"}

\* The connections that neither leave nor enter module index i
Without(conns, i) == {c \in conns : c[1] # i /\ c[2] # i}

\* The house project as it stands, once its last connection (the one into
\* Output) is made, and as it is serialized
HouseGraphs ==
  IF script # "house" THEN {}
  ELSE Snaps \cup (IF Len(projs) = 1 /\ (\E c \in projs[1].conns : c[2] = 0)
                     THEN {Serialize(1)} ELSE {})

(* C16: in the house project, once all connections are made and when it is
   serialized, the modules are Output and the eleven the script creates;
   each of the eleven has a directed path to Output; the only edge into
   Output comes from Master Comp; and with Master Comp taken out no module
   reaches Output, so every path to Output passes through Master Comp. *)
C16_AllThroughMasterComp ==
  \A g \in HouseGraphs :
    /\ {m.kw.name : m \in {n \in ModulesOf(g) : n.index # 0}} = HouseModuleNames
    /\ Len(g.modules) = 12
    /\ \A m \in ModulesOf(g) : m.index # 0 => Path(g.conns, m.index, 0)
    /\ \A mc \in ModulesOf(g) :
         mc.kw.name = "Master Comp" =>
           /\ {c[1] : c \in {d \in g.conns : d[2] = 0}} = {mc.index}
           /\ \A m \in ModulesOf(g) :
                m.index \notin {0, mc.index} => ~Path(Without(g.conns, mc.index), m.index, 0)

\* The house project between its last connection and its first pattern
C16_Witness ==
  /\ script = "house" /\ AtOp("print") /\ Cur.text = "Creating patterns..."
  /\ HouseGraphs # {}
  /\ \E g \in HouseGraphs : \E c \in g.conns : c[2] = 0

-----------------------------------------------------------------------------
\* The lines melody_notes names
MelodyLines == {melody_notes[i][1] : i \in 1..Len(melody_notes)}

\* The serialized lead patterns of the house track
LeadPatterns ==
  {pat \in UNION {PatternsOf(snap) : snap \in Snaps} : pat.name = "Lead Melody"}

(* C17: the eight melody entries are at lines 0, 8, ..., 56 and each has
   line + 6 < 64; no write to the lead pattern puts NOTE_OFF on a cell that
   holds a note-on or a note-on on a cell that holds NOTE_OFF; and the
   serialized 64-line lead pattern holds, on track 0, a note-on at every
   melody line L and a NOTE_OFF at L + 6, all targeting the Lead module,
   and nothing else: 8 note-ons and 8 note-offs, alternating. *)
C17_LeadEightOnEightOff ==
  /\ MelodyLines = {0, 8, 16, 24, 32, 40, 48, 56}
  /\ \A L \in MelodyLines : L + 6 < 64
  /\ (AtOp("note") /\ Cur.var = "lead_pattern") =>
       LET now == Cell(pats[env[Cur.var]], Cur.line, Cur.track)
       IN IF Cur.val = "NOTE_OFF" THEN ~IsNoteOn(now) ELSE ~IsNoteOff(now)
  /\ \A snap \in Snaps : \A pat \in PatternsOf(snap) :
       pat.name = "Lead Melody" =>
         /\ pat.lines = 64 /\ pat.tracks = 1
         /\ NoteOnLines(pat, 0) = MelodyLines
         /\ NoteOffLines(pat, 0) = {L + 6 : L \in MelodyLines}
         /\ Cardinality(NoteOnLines(pat, 0)) = 8 /\ Cardinality(NoteOffLines(pat, 0)) = 8
         /\ NonEmptyCells(pat) = (NoteOnLines(pat, 0) \cup NoteOffLines(pat, 0)) \X {0}
         /\ \A c \in NonEmptyCells(pat) :
              \E m \in ModulesOf(snap) : m.kw.name = "Lead" /\ pat.data[c].module = m.index + 1
         /\ \A L \in NoteOnLines(pat, 0) :
              \A l \in (L + 1)..(L + 5) : Cell(pat, l, 0) = EmptyCell

\* The lead pattern is on disk, its last note-off at line 62
C17_Witness ==
  \E pat \in LeadPatterns : IsNoteOff(Cell(pat, 62, 0)) /\ IsNoteOn(Cell(pat, 56, 0))

-----------------------------------------------------------------------------
\* The non-empty lines of track t above line l
FilledBefore(pat, t, l) ==
  {x \in WrittenLines(pat, t) : x < l /\ Cell(pat, x, t) # EmptyCell}

\* The last of them
LastFilledBefore(pat, t, l) ==
  CHOOSE x \in FilledBefore(pat, t, l) : \A y \in FilledBefore(pat, t, l) : y <= x

(* C18: for every NOTE_OFF cell of every serialized pattern, its track has
   a non-empty cell on an earlier line, the nearest such cell is a note-on,
   and the NOTE_OFF carries the module field of that note-on. *)
C18_NoteOffClosesItsNoteOn ==
  \A snap \in Snaps : \A pat \in PatternsOf(snap) : \A t \in 0..(pat.tracks - 1) :
    \A l \in NoteOffLines(pat, t) :
      /\ FilledBefore(pat, t, l) # {}
      /\ IsNoteOn(Cell(pat, LastFilledBefore(pat, t, l), t))
      /\ Cell(pat, l, t).module = Cell(pat, LastFilledBefore(pat, t, l), t).module
      /\ Cell(pat, l, t).module # 0

\* The house bassline is on disk with its eight note-offs
C18_Witness ==
  \E snap \in Snaps : \E pat \in PatternsOf(snap) :
    /\ pat.name = "Bassline"
    /\ Cardinality(NoteOffLines(pat, 0)) = 8
    /\ IsNoteOff(Cell(pat, 126, 0))

-----------------------------------------------------------------------------
\* The module indices a set of connections mentions
Nodes(conns) == {c[1] : c \in conns} \cup {c[2] : c \in conns}

Acyclic(conns) == \A i \in Nodes(conns) \cup {0} : ~Path(conns, i, i)

(* C19: the connections of every project, while it is built and when it is
   serialized, form no cycle: no module, Output included, has a directed
   path back to itself; Output has no outgoing connection at all. *)
C19_GraphAcyclic ==
  /\ \A P \in 1..Len(projs) :
       /\ Acyclic(projs[P].conns)
       /\ \A c \in projs[P].conns : c[1] # 0 /\ c[1] # c[2]
  /\ \A snap \in Snaps : Acyclic(snap.conns)

\* Example 6 of the sidechain script and all before it are serialized,
\* every one with connections
C19_Witness ==
  /\ script = "sidechain" /\ status = "done"
  /\ Cardinality(Snaps) = 6
  /\ \A snap \in Snaps : Cardinality(snap.conns) >= 3

-----------------------------------------------------------------------------
\* Sidechain examples 1 to 5 as they are serialized: the first five files
\* generate_examples.py writes
SidechainExamples ==
  IF script # "sidechain" THEN {}
  ELSE {disk[files[k].path].bytes[1] :
          k \in {j \in 1..Len(files) : j <= 5 /\ files[j].wrote # <<>>}}

\* The modules that process the ducked signal
IsProcessor(m) == m.kw.type \in {"Compressor", "Amplifier"}

\* The connections into and out of module index i
EdgesAt(conns, i) == {c \in conns : c[1] = i \/ c[2] = i}

\* The connections on a path through module index i
EdgesThrough(conns, i) ==
  {c \in conns : c[2] = i \/ Path(conns, c[2], i) \/ c[1] = i \/ Path(conns, i, c[1])}

\* The module indices the cells of the patterns of snap target
Targeted(snap) ==
  UNION {{pat.data[c].module - 1 : c \in DOMAIN pat.data} : pat \in PatternsOf(snap)}

(* C20: each of sidechain examples 1 to 5 is serialized with exactly one
   Sound2Ctl module; it has exactly one incoming connection, from the
   module the example's trigger pattern plays, and no outgoing connection,
   so none to Output, to a compressor or to an amplifier; and no connection
   at the Sound2Ctl lies on a path through a compressor or amplifier. *)
C20_Sound2CtlOnlyFed ==
  \A snap \in SidechainExamples :
    /\ Cardinality({m \in ModulesOf(snap) : IsSound2Ctl(m)}) = 1
    /\ \A s \in {m \in ModulesOf(snap) : IsSound2Ctl(m)} :
         /\ Cardinality({c \in snap.conns : c[2] = s.index}) = 1
         /\ \A c \in snap.conns : c[2] = s.index => c[1] \in Targeted(snap)
         /\ {c \in snap.conns : c[1] = s.index} = {}
         /\ ~Path(snap.conns, s.index, 0)
         /\ \A p \in {m \in ModulesOf(snap) : IsProcessor(m)} :
              /\ <<s.index, p.index>> \notin snap.conns
              /\ <<p.index, s.index>> \notin snap.conns
              /\ EdgesAt(snap.conns, s.index) \cap EdgesThrough(snap.conns, p.index) = {}

\* Examples 1 to 5 are on disk, each with a processor and a Sound2Ctl
C20_Witness ==
  /\ Cardinality(SidechainExamples) = 5
  /\ \A snap \in SidechainExamples :
       /\ \E m \in ModulesOf(snap) : IsProcessor(m)
       /\ \E m \in ModulesOf(snap) : IsSound2Ctl(m) /\ EdgesAt(snap.conns, m.index) # {}

====
